---- MODULE Spec2Model ----
(***************************************************************************)
(* Model of the 3MF packaging step of the nameplate generator scripts:     *)
(*   "bambu"    = generate_bambu_3mf.py      (two meshes + composite)      *)
(*   "separate" = generate_all_nameplates.py (two meshes, no settings)     *)
(*   "band"     = generate_nameplates.py     (one mesh, height-band paint) *)
(* Lengths are fixed-point integers in hundredths of a millimetre.         *)
(***************************************************************************)
EXTENDS Integers, Sequences, FiniteSets, TLC

\* ---- bounds -------------------------------------------------------------
MaxTris == 2
MaxRuns == 2

Scripts == {"bambu", "separate", "band"}
Names == {"Ann", "Bob"}

\* one millimetre in model units
Scale == 10 * 10

\* ---- instance fields set by __init__ --------------------------------------
VARIABLE fields   \* self.base_thickness, self.text_height, self.font_size

\* the values __init__ assigns in each script
DefaultFields(s) ==
  [base_thickness |-> CASE s = "bambu" -> 125
                        [] s = "separate" -> 250
                        [] s = "band" -> 200,
   text_height |-> CASE s = "bambu" -> 60
                     [] s = "separate" -> 120
                     [] s = "band" -> 120,
   font_size |-> CASE s = "bambu" -> 5
                   [] s = "separate" -> 10
                   [] s = "band" -> 9]

base_thickness == fields.base_thickness
text_height == fields.text_height
font_size == fields.font_size

\* values the public fields may be set to before packaging: positive lengths
FieldChoices ==
  { [base_thickness |-> b, text_height |-> t, font_size |-> 9] :
      b \in {125, 200, 250}, t \in {60, 120} }

\* ---- datetime.now().strftime('%Y-%m-%d') -----------------------------------
VARIABLE today

Day1 == "2026-11-04"
Day2 == "2026-11-05"

\* ---- input meshes (mesh.vectors: triangles of three <<x, y, z>> vertices) --
P0 == <<0, 0, 0>>
P1 == <<-150, 0, 0>>
P2 == <<0, 275, 125>>
P3 == <<1005, -5, 200>>

Triangles == { <<P0, P1, P2>>, <<P0, P2, P1>>, <<P1, P3, P2>> }

RECURSIVE SeqsUpTo(_, _)
SeqsUpTo(S, n) ==
  IF n = 0 THEN { <<>> }
  ELSE LET shorter == SeqsUpTo(S, n - 1)
       IN shorter \cup { Append(q, e) : q \in shorter, e \in S }

Meshes == SeqsUpTo(Triangles, MaxTris)

\* number of mesh arguments of the packaging operation of each script
NumMeshArgs(s) == IF s = "band" THEN 1 ELSE 2

MeshArgs(s) ==
  IF s = "band" THEN { <<m>> : m \in Meshes }
  ELSE { <<b, t>> : b \in Meshes, t \in Meshes }

\* ---- str(): decimal text of a coordinate, and its parse --------------------
Abs(c) == IF c < 0 THEN 0 - c ELSE c

Str(c) == [neg |-> c < 0, int |-> Abs(c) \div Scale, frac |-> Abs(c) % Scale]

ParseFloat(t) == (IF t.neg THEN 0 - 1 ELSE 1) * (t.int * Scale + t.frac)

\* ---- mesh elements -------------------------------------------------------
EmptyMeshElem == [vertices |-> <<>>, triangles |-> <<>>]

VertexElem(vertex, zoff) ==
  [x |-> Str(vertex[1]), y |-> Str(vertex[2]), z |-> Str(vertex[3] + zoff)]

\* the loop "for triangle in mesh.vectors" with its running vertex_idx
RECURSIVE MeshLoop(_, _, _, _)
MeshLoop(vectors, vertex_idx, zoff, acc) ==
  IF vectors = <<>> THEN acc
  ELSE LET triangle == Head(vectors)
       IN MeshLoop(Tail(vectors), vertex_idx + 3, zoff,
            [vertices |-> acc.vertices \o
                 << VertexElem(triangle[1], zoff),
                    VertexElem(triangle[2], zoff),
                    VertexElem(triangle[3], zoff) >>,
             triangles |-> Append(acc.triangles,
                 [v1 |-> vertex_idx, v2 |-> vertex_idx + 1, v3 |-> vertex_idx + 2])])

AddMeshOneBased(mesh) == MeshLoop(mesh, 1, 0, EmptyMeshElem)

\* generate_bambu_3mf.py _add_mesh_to_object
AddMeshToObject(mesh) == MeshLoop(mesh, 0, 0, EmptyMeshElem)

\* generate_nameplates.py _add_mesh_to_object
AddMeshToObjectMerged(mesh) == MeshLoop(mesh, 0, 0, EmptyMeshElem)

\* a variant whose indices start one triangle late
SeparateBaseMeshLate(base_mesh) == MeshLoop(base_mesh, 3, 0, EmptyMeshElem)

\* generate_all_nameplates.py, base loop
SeparateBaseMesh(base_mesh) == MeshLoop(base_mesh, 0, 0, EmptyMeshElem)

\* generate_all_nameplates.py, text loop (z + self.base_thickness)
SeparateTextMesh(text_mesh) ==
  MeshLoop(text_mesh, 0, base_thickness, EmptyMeshElem)

\* ---- model document ------------------------------------------------------
MeshObject(id, nm, m) ==
  [id |-> id, type |-> "model", name |-> nm, mesh |-> <<m>>, components |-> <<>>]

ComponentsObject(id, comps) ==
  [id |-> id, type |-> "model", name |-> <<>>, mesh |-> <<>>, components |-> comps]

ComponentTransform == <<1, 0, 0, 0, 1, 0, 0, 0, 1, 0, 0, 0>>
BuildItemTransform == <<1, 0, 0, 0, 0, 1, 0, 0, 0, 0, 1, 0>>

\* a variant that names object 1 twice and object 2 never
BambuComponentsRepeated ==
  << [objectid |-> 1, transform |-> ComponentTransform],
     [objectid |-> 1, transform |-> ComponentTransform] >>

\* a variant whose second component names an object that is not declared
BambuComponentsDangling ==
  << [objectid |-> 1, transform |-> ComponentTransform],
     [objectid |-> 4, transform |-> ComponentTransform] >>

BambuComponents ==
  << [objectid |-> 1, transform |-> ComponentTransform],
     [objectid |-> 2, transform |-> ComponentTransform] >>

BambuBuildDangling ==
  << [objectid |-> 4, transform |-> <<BuildItemTransform>>, printable |-> <<1>>] >>

BambuBuild ==
  << [objectid |-> 3, transform |-> <<BuildItemTransform>>, printable |-> <<1>>] >>

BandBuildTwoItems ==
  << [objectid |-> 1, transform |-> <<>>, printable |-> <<1>>],
     [objectid |-> 1, transform |-> <<>>, printable |-> <<1>>] >>

BandBuild ==
  << [objectid |-> 1, transform |-> <<>>, printable |-> <<1>>] >>

SeparateBuild ==
  << [objectid |-> 1, transform |-> <<>>, printable |-> <<>>],
     [objectid |-> 2, transform |-> <<>>, printable |-> <<>>] >>

\* generate_bambu_3mf.py _create_model_file
bambu_create_model_file(base_mesh, text_mesh, name) ==
  [title |-> <<name>>, date |-> <<today>>,
   objects |-> << MeshObject(1, <<>>, AddMeshToObject(base_mesh)),
                  MeshObject(2, <<>>, AddMeshToObject(text_mesh)),
                  ComponentsObject(3, BambuComponents) >>,
   build |-> BambuBuild]

\* generate_nameplates.py _create_model_file
band_create_model_file(mesh, name) ==
  [title |-> <<name>>, date |-> <<today>>,
   objects |-> << MeshObject(1, <<>>, AddMeshToObjectMerged(mesh)) >>,
   build |-> BandBuild]

\* generate_all_nameplates.py create_3mf_with_separate_objects, model_root
separate_model_root(base_mesh, text_mesh, name) ==
  [title |-> <<>>, date |-> <<>>,
   objects |-> << MeshObject(1, <<name, "Base">>, SeparateBaseMesh(base_mesh)),
                  MeshObject(2, <<name, "Text">>, SeparateTextMesh(text_mesh)) >>,
   build |-> SeparateBuild]

ModelDocument(s, m, name) ==
  CASE s = "bambu" -> bambu_create_model_file(m[1], m[2], name)
    [] s = "band" -> band_create_model_file(m[1], name)
    [] s = "separate" -> separate_model_root(m[1], m[2], name)

\* ---- settings document (Metadata/model_settings.config) -------------------
IdentityMatrix4 == <<1, 0, 0, 0, 0, 1, 0, 0, 0, 0, 1, 0, 0, 0, 0, 1>>

TextInfo(name) ==
  [text |-> name, font_name |-> "Arial", style_name |-> "Bold",
   font_size |-> font_size, thickness |-> Str(text_height)]

Part(id, nm, extruder, src, info, paints) ==
  [id |-> id, subtype |-> "normal_part", name |-> nm, extruder |-> extruder,
   matrix |-> IdentityMatrix4, source_object_id |-> src, text_info |-> info,
   paint |-> paints]

Paint(extruder, low, high) ==
  [extruder |-> extruder, height_range_low |-> low, height_range_high |-> high]

BambuPartsSwapped(name) ==
  << Part(1, <<name, "Base">>, <<2>>, <<1>>, <<>>, <<>>),
     Part(2, <<name, "Text">>, <<1>>, <<2>>, <<TextInfo(name)>>, <<>>) >>

BambuParts(name) ==
  << Part(1, <<name, "Base">>, <<1>>, <<1>>, <<>>, <<>>),
     Part(2, <<name, "Text">>, <<2>>, <<2>>, <<TextInfo(name)>>, <<>>) >>

BandPaintsOneBand ==
  << Paint(1, Str(0), Str(base_thickness + text_height)) >>

\* a variant whose upper band starts at text_height
BandPaintsTextLow ==
  << Paint(1, Str(0), Str(base_thickness)),
     Paint(2, Str(text_height), Str(base_thickness + text_height)) >>

\* a variant whose upper band starts just above base_thickness
BandPaintsGap ==
  << Paint(1, Str(0), Str(base_thickness)),
     Paint(2, Str(base_thickness + 1),
              Str(base_thickness + text_height)) >>

BandPaints ==
  << Paint(1, Str(0), Str(base_thickness)),
     Paint(2, Str(base_thickness),
              Str(base_thickness + text_height)) >>

BandParts(name) ==
  << Part(1, <<name>>, <<>>, <<>>, <<>>, BandPaints) >>

BambuModelInstanceOff == [object_id |-> 1, instance_id |-> 0]

BambuModelInstance == [object_id |-> 3, instance_id |-> 0]

\* generate_bambu_3mf.py _create_model_settings
bambu_create_model_settings(name) ==
  [object |-> [id |-> 3, name |-> <<name, ".3mf">>,
               extruder |-> <<1>>, part |-> BambuParts(name)],
   plate |-> [plater_id |-> 1, model_instance |-> BambuModelInstance],
   assemble |-> << [object_id |-> 3, instance_id |-> 0,
                    transform |-> ComponentTransform, offset |-> <<0, 0, 0>>] >>]

\* generate_nameplates.py _create_model_settings
band_create_model_settings(name) ==
  [object |-> [id |-> 1, name |-> <<name, ".3mf">>,
               extruder |-> <<>>, part |-> BandParts(name)],
   plate |-> [plater_id |-> 1,
              model_instance |-> [object_id |-> 1, instance_id |-> 0]],
   assemble |-> << [object_id |-> 1, instance_id |-> 0,
                    transform |-> ComponentTransform, offset |-> <<0, 0, 0>>] >>]

SettingsDocument(s, name) ==
  IF s = "bambu" THEN bambu_create_model_settings(name)
  ELSE band_create_model_settings(name)

\* ---- [Content_Types].xml and _rels/.rels ----------------------------------
ContentTypes ==
  << [Extension |-> "rels",
      ContentType |-> "application/vnd.openxmlformats-package.relationships+xml"],
     [Extension |-> "model",
      ContentType |-> "application/vnd.ms-package.3dmanufacturing-3dmodel+xml"] >>

RelsTargetRelative == <<"3dmodel.model">>

\* Target '/3D/3dmodel.model': a leading "/" followed by the path segments
RelsTarget == <<"/", "3D", "3dmodel.model">>

Rels ==
  << [Target |-> RelsTarget, Id |-> "rel0",
      Type |-> "http://schemas.microsoft.com/3dmanufacturing/2013/01/3dmodel"] >>

\* ---- staging directory and archive layout ---------------------------------
Slots == {"model", "settings", "ctypes", "rels"}

\* arcname = os.path.relpath(file_path, temp_dir): the path below the staging dir
ArcName(slot) ==
  CASE slot = "model" -> <<"3D", "3dmodel.model">>
    [] slot = "settings" -> <<"Metadata", "model_settings.config">>
    [] slot = "ctypes" -> <<"[Content_Types].xml">>
    [] slot = "rels" -> <<"_rels", ".rels">>

\* the documents each script stages
Staged(s) == IF s = "separate" THEN Slots \ {"settings"} ELSE Slots

NoFiles == [model |-> <<>>, settings |-> <<>>, ctypes |-> <<>>, rels |-> <<>>]

NoDir == [exists |-> FALSE, files |-> NoFiles]

NoArchive == [exists |-> FALSE, complete |-> FALSE, entries |-> NoFiles]

\* ---- state ----------------------------------------------------------------
VARIABLES
  script,       \* which of the three scripts this generator object belongs to
  stl,          \* the rendered mesh files on disk, per nameplate
  runs,         \* packaging calls made so far on this generator object
  pc,           \* position of the current packaging call
  name,         \* its name argument (output_3mf is the archive path of that name)
  meshes,       \* base_mesh, text_mesh (or mesh) once loaded
  result,       \* <<>> while running, then <<TRUE>> or <<FALSE>>
  failedAt,     \* the step that raised, "" if none
  phases,       \* history: the packaging phases the current call went through
  destTouched,  \* history: the call created or modified the file at output_3mf
  staging,      \* temp_generation/3mf_structure or temp_scad/temp_3mf
  output,       \* the archive file at each name's destination path
  previous,     \* history: per name, the last complete archive that a later
                \* call on the same name overwrote
  other,        \* the locals of a second, concurrently running packaging call
  gen,          \* the current generate_nameplate call
  batch,        \* the current generate_batch call
  tempFiles     \* geometry descriptions and rendered meshes on disk

vars == << script, stl, runs, pc, name, meshes, result, failedAt, phases,
           destTouched, staging, output, previous, other, gen, batch,
           tempFiles, fields, today >>

\* what the packaging steps never change
restVars == << other, gen, batch, tempFiles, fields, today >>

NoGen == [pc |-> "idle", name |-> "", base_ok |-> FALSE, text_ok |-> FALSE,
          render_failed |-> FALSE, called |-> FALSE, success |-> FALSE,
          threemf |-> <<>>, attempts |-> <<>>]

NoBatch == [status |-> "idle", names |-> <<>>, i |-> 1, results |-> <<>>,
            started |-> <<>>]

SomeName == CHOOSE n \in Names : TRUE

\* rendered meshes used when the run structure, not the geometry, is explored
FixedStl(s) ==
  [n \in Names |->
     IF s = "band"
     THEN IF n = SomeName THEN << <<(<<P0, P1, P2>>), (<<P1, P3, P2>>)>> >>
          ELSE << <<>> >>
     ELSE IF n = SomeName THEN << <<(<<P0, P1, P2>>)>>, <<(<<P1, P3, P2>>)>> >>
          ELSE << <<(<<P0, P2, P1>>)>>, <<>> >>]

InitRun ==
  /\ script \in Scripts
  /\ runs = 0
  /\ pc = "idle"
  /\ name = SomeName
  /\ meshes = <<>>
  /\ result = <<>>
  /\ failedAt = ""
  /\ phases = <<>>
  /\ destTouched = FALSE
  /\ staging = NoDir
  /\ output = [n \in Names |-> NoArchive]
  /\ previous = [n \in Names |-> <<>>]
  /\ other = <<>>
  /\ gen = NoGen
  /\ batch = NoBatch
  /\ tempFiles = {}
  /\ fields = DefaultFields(script)
  /\ today = Day1

Init == InitRun /\ stl = FixedStl(script)

InitDoc == InitRun /\ stl \in { [n \in Names |-> a] : a \in MeshArgs(script) }

File(doc) == << [run |-> runs, complete |-> TRUE, doc |-> doc] >>

PartialFile(doc) == << [run |-> runs, complete |-> FALSE, doc |-> doc] >>

\* a variant that numbers objects from a counter kept on the generator object
DocumentOfCountedIds(slot) ==
  CASE slot = "model" ->
         [model |-> << [ModelDocument(script, meshes, name) EXCEPT
                          !.objects = [i \in DOMAIN @ |->
                                         [@[i] EXCEPT !.id = @ + 3 * (runs - 1)]]] >>,
          settings |-> <<>>, types |-> <<>>, rels |-> <<>>]
    [] slot = "settings" -> [model |-> <<>>,
                             settings |-> <<SettingsDocument(script, name)>>,
                             types |-> <<>>, rels |-> <<>>]
    [] slot = "ctypes" -> [model |-> <<>>, settings |-> <<>>,
                           types |-> ContentTypes, rels |-> <<>>]
    [] slot = "rels" -> [model |-> <<>>, settings |-> <<>>,
                         types |-> <<>>, rels |-> Rels]

\* the document a step writes into its slot of the staging directory
DocumentOf(slot) ==
  CASE slot = "model" -> [model |-> <<ModelDocument(script, meshes, name)>>,
                          settings |-> <<>>, types |-> <<>>, rels |-> <<>>]
    [] slot = "settings" -> [model |-> <<>>,
                             settings |-> <<SettingsDocument(script, name)>>,
                             types |-> <<>>, rels |-> <<>>]
    [] slot = "ctypes" -> [model |-> <<>>, settings |-> <<>>,
                           types |-> ContentTypes, rels |-> <<>>]
    [] slot = "rels" -> [model |-> <<>>, settings |-> <<>>,
                         types |-> <<>>, rels |-> Rels]

\* bambu/band: rmtree an existing directory, then makedirs
FreshStagingDir(st) == [exists |-> TRUE, files |-> NoFiles]

\* separate: makedirs(exist_ok=True) keeps whatever is in the directory
ReusedStagingDir(st) == [exists |-> TRUE, files |-> st.files]

MakeDirs(s, st) ==
  IF s = "separate" THEN ReusedStagingDir(st) ELSE FreshStagingDir(st)

\* a variant that does not write the content-type table again when the reused
\* staging directory still holds one
NextAfterKeepsStaged(s, p) ==
  CASE p = "model" -> IF s = "separate"
                      THEN IF staging.files.ctypes # <<>> THEN "rels" ELSE "ctypes"
                      ELSE "settings"
    [] p = "settings" -> "ctypes"
    [] p = "ctypes" -> "rels"
    [] p = "rels" -> "zipopen"

NextAfter(s, p) ==
  CASE p = "model" -> IF s = "separate" THEN "ctypes" ELSE "settings"
    [] p = "settings" -> "ctypes"
    [] p = "ctypes" -> "rels"
    [] p = "rels" -> "zipopen"

\* ---- the packaging call, step by step -------------------------------------
CallBody(n, limit) ==
  /\ pc \in {"idle", "returned"}
  /\ runs < limit
  /\ runs' = runs + 1
  /\ name' = n
  /\ pc' = "load"
  /\ meshes' = <<>>
  /\ result' = <<>>
  /\ failedAt' = ""
  /\ phases' = <<>>
  /\ destTouched' = FALSE
  /\ UNCHANGED << script, stl, staging, output, previous >>

Call(n, limit) == CallBody(n, limit) /\ UNCHANGED restVars

\* stl_mesh.Mesh.from_file for each mesh argument; staging then starts
LoadMeshes ==
  /\ pc = "load"
  /\ meshes' = stl[name]
  /\ pc' = "mkdirs"
  /\ phases' = <<"Built", "Staged">>
  /\ UNCHANGED << script, stl, runs, name, result, failedAt, destTouched,
                  staging, output , previous,
                  restVars >>

MakeStaging ==
  /\ pc = "mkdirs"
  /\ staging' = MakeDirs(script, staging)
  /\ pc' = "model"
  /\ UNCHANGED << script, stl, runs, name, meshes, result, failedAt, phases,
                  destTouched, output , previous,
                  restVars >>

WriteDocument(slot) ==
  /\ pc = slot
  /\ staging.exists
  /\ staging' = [staging EXCEPT !.files[slot] = File(DocumentOf(slot))]
  /\ pc' = NextAfter(script, slot)
  /\ UNCHANGED << script, stl, runs, name, meshes, result, failedAt, phases,
                  destTouched, output , previous,
                  restVars >>

WriteModel == WriteDocument("model")
WriteSettings == WriteDocument("settings")
WriteContentTypes == WriteDocument("ctypes")
WriteRels == WriteDocument("rels")

\* zipfile.ZipFile(output_3mf, 'w'): creates or truncates the destination file
ZipOpen ==
  /\ pc = "zipopen"
  /\ output' = [output EXCEPT ![name] =
                  [exists |-> TRUE, complete |-> FALSE, entries |-> NoFiles]]
  /\ previous' = IF output[name].complete
                 THEN [previous EXCEPT ![name] = <<output[name].entries>>]
                 ELSE previous
  /\ destTouched' = TRUE
  /\ pc' = "zipwrite"
  /\ UNCHANGED << script, stl, runs, name, meshes, result, failedAt, phases,
                  staging , restVars >>

\* zipf.write of one file that os.walk finds in the staging directory
ZipWrite(slot) ==
  /\ pc = "zipwrite"
  /\ staging.files[slot] # <<>>
  /\ output[name].entries[slot] = <<>>
  /\ output' = [output EXCEPT ![name].entries[slot] = staging.files[slot]]
  /\ UNCHANGED << script, stl, runs, pc, name, meshes, result, failedAt,
                  phases, destTouched, staging , previous,
                  restVars >>

ZipWriteAny == \E slot \in Slots : ZipWrite(slot)

\* leaving the with block after the walk: the archive is closed, all files in it
ZipClose ==
  /\ pc = "zipwrite"
  /\ \A slot \in Slots : staging.files[slot] # <<>> => output[name].entries[slot] # <<>>
  /\ output' = [output EXCEPT ![name].complete = TRUE]
  /\ pc' = "cleanup"
  /\ phases' = Append(phases, "Written")
  /\ UNCHANGED << script, stl, runs, name, meshes, result, failedAt,
                  destTouched, staging , previous,
                  restVars >>

\* shutil.rmtree(temp dir); return True
Cleanup ==
  /\ pc = "cleanup"
  /\ staging.exists
  /\ staging' = NoDir
  /\ result' = <<TRUE>>
  /\ pc' = "returned"
  /\ phases' = Append(phases, "Committed")
  /\ UNCHANGED << script, stl, runs, name, meshes, failedAt, destTouched, output , previous,
                  restVars >>

\* what a step that raises leaves on disk
StagingAfterRaise(p) ==
  CASE p = "mkdirs" -> { staging, MakeDirs(script, staging) }
    [] p \in Slots -> { staging } \cup
                      { [staging EXCEPT !.files[p] = PartialFile(DocumentOf(p))] :
                          x \in IF staging.exists THEN {1} ELSE {} }
    [] OTHER -> { staging }

\* any step raises: "except Exception" prints and returns False
Raise ==
  /\ pc \in {"load", "mkdirs", "zipopen", "zipwrite", "cleanup"} \cup Slots
  /\ staging' \in StagingAfterRaise(pc)
  /\ failedAt' = pc
  /\ result' = <<FALSE>>
  /\ pc' = "returned"
  /\ phases' = Append(phases, "Aborted")
  /\ UNCHANGED << script, stl, runs, name, meshes, destTouched, output , previous,
                  restVars >>

Steps ==
  \/ LoadMeshes
  \/ MakeStaging
  \/ WriteModel
  \/ WriteSettings
  \/ WriteContentTypes
  \/ WriteRels
  \/ ZipOpen
  \/ ZipWriteAny
  \/ ZipClose
  \/ Cleanup

CallAny == \E n \in Names : Call(n, MaxRuns)

CallOnce == \E n \in Names : Call(n, 1)

Next == CallAny \/ Steps \/ Raise

NextDoc == CallOnce \/ Steps

Spec == Init /\ [][Next]_vars

SpecDoc == InitDoc /\ [][NextDoc]_vars

\* ---- reading documents back ------------------------------------------------
\* complete files of a slot, in the staging directory or in any archive
WrittenFiles(slot) ==
  { f \in {staging.files[slot]} \cup { output[n].entries[slot] : n \in Names } :
      f # <<>> /\ f[1].complete }

\* those written by the current (latest) call, whose inputs are still in meshes
OwnFiles(slot) == { f \in WrittenFiles(slot) : f[1].run = runs }

ModelOf(f) == f[1].doc.model[1]
SettingsOf(f) == f[1].doc.settings[1]

ObjectIds(doc) == { doc.objects[i].id : i \in DOMAIN doc.objects }

ObjectWithId(doc, id) ==
  doc.objects[CHOOSE i \in DOMAIN doc.objects : doc.objects[i].id = id]

MeshObjects(doc) ==
  { i \in DOMAIN doc.objects : doc.objects[i].mesh # <<>> }

CompositeObjects(doc) ==
  { i \in DOMAIN doc.objects : doc.objects[i].components # <<>> }

\* the composite object if there is one, otherwise the sole mesh object
TopLevelIds(doc) ==
  IF CompositeObjects(doc) # {}
  THEN { doc.objects[i].id : i \in CompositeObjects(doc) }
  ELSE { doc.objects[i].id : i \in MeshObjects(doc) }

ParseVertex(v) == << ParseFloat(v.x), ParseFloat(v.y), ParseFloat(v.z) >>

IsIdentity4(m) ==
  /\ Len(m) = 16
  /\ \A r \in 1..4, c \in 1..4 : m[4 * (r - 1) + c] = (IF r = c THEN 1 ELSE 0)

\* a package-absolute Target is the archive path behind its leading "/"
ResolveTarget(t) == IF t # <<>> /\ t[1] = "/" THEN Tail(t) ELSE <<"_rels">> \o t

ArchiveDone == pc = "returned" /\ result = <<TRUE>> /\ output[name].complete

\* ---- C1 --------------------------------------------------------------------
\* C1: when a packaging call returns after a failure of the mesh load, of the
\* writing of a staged document or of the writing of the zip, no file that the
\* call created or wrote, partial or complete, is at the destination path.
C1_NoFileAtDestinationOnFailure ==
  (pc = "returned" /\ result = <<FALSE>>
     /\ failedAt \in {"load", "zipopen", "zipwrite"} \cup Slots)
  => ~(destTouched /\ output[name].exists)

\* ---- C2 --------------------------------------------------------------------
\* C2: a packaging run that got past the mesh load ends on exactly one of the
\* paths Built -> Staged -> Written -> Committed or Built -> Staged -> Aborted;
\* Committed comes only after every document was staged and the archive was
\* fully written; a run that ends Aborted never created or modified the
\* destination.
C2_RunPaths ==
  (pc = "returned" /\ failedAt # "load")
  => /\ phases \in { <<"Built", "Staged", "Written", "Committed">>,
                     <<"Built", "Staged", "Aborted">> }
     /\ phases[Len(phases)] = "Committed"
          => /\ output[name].complete
             /\ \A slot \in Staged(script) :
                  /\ output[name].entries[slot] # <<>>
                  /\ output[name].entries[slot][1].run = runs
     /\ phases[Len(phases)] = "Aborted" => ~destTouched

\* ---- C3 --------------------------------------------------------------------
\* C3: when a packaging call returns, on success or after an exception raised
\* by a step that follows the creation of the staging directory, the staging
\* directory and everything in it has been removed.
C3_StagingRemovedOnEveryExit ==
  (pc = "returned"
     /\ (result = <<TRUE>> \/ failedAt \in {"zipopen", "zipwrite"} \cup Slots))
  => ~staging.exists

\* ---- C4 --------------------------------------------------------------------
RefsResolve(doc) ==
  /\ \A i \in DOMAIN doc.objects : doc.objects[i].id > 0
  /\ \A i, j \in DOMAIN doc.objects : i # j => doc.objects[i].id # doc.objects[j].id
  /\ \A i \in DOMAIN doc.objects : \A k \in DOMAIN doc.objects[i].components :
       doc.objects[i].components[k].objectid \in ObjectIds(doc)
  /\ \A k \in DOMAIN doc.build : doc.build[k].objectid \in ObjectIds(doc)

\* C4: in every model document written by any script, each component objectid
\* and each build item objectid is the id of an object of that document, and
\* the object ids are positive and pairwise distinct.
C4_ReferencesResolve ==
  \A f \in WrittenFiles("model") : RefsResolve(ModelOf(f))

C4_Witness ==
  /\ script = "bambu"
  /\ pc = "settings"
  /\ staging.files.model # <<>>
  /\ CompositeObjects(ModelOf(staging.files.model)) # {}
  /\ meshes[1] # <<>>

\* ---- C5 --------------------------------------------------------------------
SettingsConsistent(st, doc) ==
  /\ Len(doc.build) = 1
  /\ st.object.id = doc.build[1].objectid
  /\ st.plate.model_instance.object_id = doc.build[1].objectid
  /\ \A k \in DOMAIN st.assemble : st.assemble[k].object_id = doc.build[1].objectid
  /\ \A k \in DOMAIN st.object.part :
       \A q \in DOMAIN st.object.part[k].source_object_id :
         LET src == st.object.part[k].source_object_id[q]
         IN /\ src \in ObjectIds(doc)
            /\ ObjectWithId(doc, src).mesh # <<>>
            /\ st.object.id \in ObjectIds(doc)
            /\ \E c \in DOMAIN ObjectWithId(doc, st.object.id).components :
                 ObjectWithId(doc, st.object.id).components[c].objectid = src

\* C5: at the moment of packaging (all documents staged, the zip being
\* written) the staged documents are ID-consistent: the settings object id,
\* model_instance object_id and assemble_item object_id equal the objectid of
\* the model document's build item, every source_object_id is a mesh object
\* that is a component of that object, and the relationships Target resolves
\* to the archive path of the model document.
C5_DocumentsIdConsistent ==
  pc \in {"zipopen", "zipwrite"}
  => /\ staging.files.settings # <<>>
          => SettingsConsistent(SettingsOf(staging.files.settings),
                                ModelOf(staging.files.model))
     /\ \A k \in DOMAIN staging.files.rels[1].doc.rels :
          ResolveTarget(staging.files.rels[1].doc.rels[k].Target) = ArcName("model")

C5_Witness ==
  /\ script = "bambu"
  /\ pc = "zipwrite"
  /\ output[name].entries.settings # <<>>
  /\ output[name].entries.model # <<>>
  /\ meshes[2] # <<>>

\* ---- C6 --------------------------------------------------------------------
\* the mesh object emitted for the i-th input mesh of the call
ObjectOfInput(doc, i) == doc.objects[i].mesh[1]

IndicesLocal(m, n) ==
  /\ Len(m.vertices) = 3 * n
  /\ Len(m.triangles) = n
  /\ \A k \in DOMAIN m.triangles :
       /\ m.triangles[k].v1 >= 0 /\ m.triangles[k].v1 < 3 * n
       /\ m.triangles[k].v2 >= 0 /\ m.triangles[k].v2 < 3 * n
       /\ m.triangles[k].v3 >= 0 /\ m.triangles[k].v3 < 3 * n
  /\ n > 0 => m.triangles[1].v1 = 0

\* C6: for every input mesh of n >= 0 triangles, in every script, the object
\* emitted for it has exactly 3n vertex entries and n triangle entries, every
\* triangle index is in 0 .. 3n - 1, and the first triangle of every object
\* starts at index 0 whatever the previous object of the document holds.
C6_ObjectLocalIndices ==
  \A f \in OwnFiles("model") :
    \A i \in DOMAIN meshes :
      IndicesLocal(ObjectOfInput(ModelOf(f), i), Len(meshes[i]))

C6_Witness ==
  /\ ArchiveDone
  /\ script \in {"bambu", "separate"}
  /\ Len(meshes[1]) >= 2
  /\ Len(meshes[2]) >= 1
  /\ output[name].entries.model # <<>>
  /\ Len(ObjectOfInput(ModelOf(output[name].entries.model), 2).vertices) >= 3

\* ---- C7 --------------------------------------------------------------------
OneBuildItem(doc) ==
  /\ Len(doc.build) = 1
  /\ TopLevelIds(doc) = { doc.build[1].objectid }
  /\ doc.build[1].printable = <<1>>

\* C7 as stated: every model document written by any script contains exactly
\* one build item, which references the single top-level printable object and
\* carries printable = 1.
C7_ExactlyOneBuildItem ==
  \A f \in WrittenFiles("model") : OneBuildItem(ModelOf(f))

\* C7 amended: the model documents of generate_bambu_3mf.py and
\* generate_nameplates.py contain exactly one build item, referencing the
\* top-level object with printable = 1; the model document of
\* generate_all_nameplates.py contains one build item per mesh object, in
\* object order, without a printable flag.
C7_BuildItemsPerScript ==
  \A f \in WrittenFiles("model") :
    LET doc == ModelOf(f)
    IN IF script = "separate"
       THEN /\ Len(doc.build) = Len(doc.objects)
            /\ \A k \in DOMAIN doc.build :
                 /\ doc.build[k].objectid = doc.objects[k].id
                 /\ doc.objects[k].mesh # <<>>
                 /\ doc.build[k].printable = <<>>
       ELSE OneBuildItem(doc)

C7_Witness ==
  /\ ArchiveDone
  /\ output[name].entries.model # <<>>
  /\ Len(ModelOf(output[name].entries.model).build) = 1

\* ---- C8 --------------------------------------------------------------------
RoundTrip(m, mesh) ==
  /\ Len(m.triangles) = Len(mesh)
  /\ \A k \in DOMAIN mesh :
       /\ m.triangles[k].v1 + 1 \in DOMAIN m.vertices
       /\ m.triangles[k].v2 + 1 \in DOMAIN m.vertices
       /\ m.triangles[k].v3 + 1 \in DOMAIN m.vertices
       /\ ParseVertex(m.vertices[m.triangles[k].v1 + 1]) = mesh[k][1]
       /\ ParseVertex(m.vertices[m.triangles[k].v2 + 1]) = mesh[k][2]
       /\ ParseVertex(m.vertices[m.triangles[k].v3 + 1]) = mesh[k][3]

\* C8: for every input mesh, the k-th triangle of the emitted object refers,
\* as v1, v2, v3, to vertex entries whose parsed coordinates are the 1st, 2nd
\* and 3rd vertex of the k-th source triangle: re-extraction gives the input
\* coordinates in the input winding order.
C8_RoundTrip ==
  \A f \in OwnFiles("model") :
    \A i \in DOMAIN meshes :
      RoundTrip(ObjectOfInput(ModelOf(f), i), meshes[i])

\* ---- C9 --------------------------------------------------------------------
MergedObjectAndBuild(doc, mesh) ==
  /\ Len(doc.objects) = 1
  /\ doc.objects[1].mesh # <<>>
  /\ Len(doc.objects[1].mesh[1].triangles) = Len(mesh)
  /\ Len(doc.build) = 1
  /\ doc.build[1].objectid = doc.objects[1].id

\* C9 as stated: height-band packaging yields one merged mesh object holding
\* all triangles, one build entry referencing it, and a settings document with
\* exactly two part entries carrying extruders 1 and 2.
C9_TwoPartEntries ==
  (script = "band" /\ ArchiveDone)
  => /\ MergedObjectAndBuild(ModelOf(output[name].entries.model), meshes[1])
     /\ LET part == SettingsOf(output[name].entries.settings).object.part
        IN /\ Len(part) = 2
           /\ part[1].extruder = <<1>>
           /\ part[2].extruder = <<2>>

\* C9 amended: height-band packaging yields one merged mesh object holding all
\* triangles, one build entry referencing it, and a settings document with
\* exactly one part entry that carries two paint bands, [0, base_thickness)
\* with extruder 1 and [base_thickness, base_thickness + text_height) with
\* extruder 2.
C9_OnePartTwoPaintBands ==
  (script = "band" /\ ArchiveDone)
  => /\ MergedObjectAndBuild(ModelOf(output[name].entries.model), meshes[1])
     /\ LET part == SettingsOf(output[name].entries.settings).object.part
        IN /\ Len(part) = 1
           /\ Len(part[1].paint) = 2
           /\ part[1].paint[1].extruder = 1
           /\ ParseFloat(part[1].paint[1].height_range_low) = 0
           /\ ParseFloat(part[1].paint[1].height_range_high) = base_thickness
           /\ part[1].paint[2].extruder = 2
           /\ ParseFloat(part[1].paint[2].height_range_low) = base_thickness
           /\ ParseFloat(part[1].paint[2].height_range_high)
                = base_thickness + text_height

C9_Witness ==
  /\ script = "band"
  /\ ArchiveDone
  /\ Len(meshes[1]) = MaxTris
  /\ output[name].entries.settings # <<>>

\* ---- C10 -------------------------------------------------------------------
PartsPerMeshObject(st, doc) ==
  /\ Len(st.object.part) = Cardinality(MeshObjects(doc))
  /\ \A i \in DOMAIN st.object.part :
       /\ st.object.part[i].source_object_id = <<i>>
       /\ i \in MeshObjects(doc)
       /\ doc.objects[i].id = i
       /\ st.object.part[i].name # <<>>
       /\ IsIdentity4(st.object.part[i].matrix)
       /\ st.object.part[i].extruder = <<i>>
       /\ (st.object.part[i].text_info # <<>>) <=> (i = 2)

MaxBatch == 2

\* safe_name: spaces (and "/" in two scripts) replaced; lower-cased in
\* generate_all_nameplates.py
SafeName(n) ==
  IF script = "separate"
  THEN CASE n = "Ann" -> "ann"
         [] n = "Bob" -> "bob"
         [] OTHER -> n
  ELSE n

\* the geometry description and mesh files of one mesh of a nameplate
ScadFile(n, part) == << SafeName(n), part, "scad" >>
StlFile(n, part) == << SafeName(n), part, "stl" >>

\* the meshes generate_nameplate describes and renders, in order
PartsOf(s) == IF s = "band" THEN <<"combined">> ELSE <<"base", "text">>

BatchStart(ns) ==
  /\ batch.status = "idle"
  /\ batch' = [NoBatch EXCEPT !.status = "running", !.names = ns]
  /\ UNCHANGED << script, stl, runs, pc, name, meshes, result, failedAt, phases,
                  destTouched, staging, output, previous, other, gen,
                  tempFiles, fields, today >>

BatchStartAny == \E ns \in SeqsUpTo(Names, MaxBatch) : BatchStart(ns)

\* for name in names: self.generate_nameplate(name)
GenCall ==
  /\ batch.status = "running"
  /\ gen.pc = "idle"
  /\ batch.i <= Len(batch.names)
  /\ gen' = [NoGen EXCEPT !.pc = "scad_base", !.name = batch.names[batch.i]]
  /\ batch' = [batch EXCEPT !.started = Append(@, batch.i)]
  /\ UNCHANGED << script, stl, runs, pc, name, meshes, result, failedAt, phases,
                  destTouched, staging, output, previous, other,
                  tempFiles, fields, today >>

\* generate_scad_base / generate_scad_text / generate_scad_combined succeed
WriteScad ==
  /\ gen.pc \in {"scad_base", "scad_text"}
  /\ LET part == IF gen.pc = "scad_base" THEN PartsOf(script)[1]
                 ELSE PartsOf(script)[2]
     IN tempFiles' = tempFiles \cup { ScadFile(gen.name, part) }
  /\ gen' = [gen EXCEPT !.pc = IF gen.pc = "scad_base" /\ script # "band"
                               THEN "scad_text" ELSE "render_base"]
  /\ UNCHANGED << script, stl, runs, pc, name, meshes, result, failedAt, phases,
                  destTouched, staging, output, previous, other, batch,
                  fields, today >>

\* open(output_file, 'w') or f.write raises: nothing catches it in
\* generate_nameplate, generate_batch or main
ScadRaise ==
  /\ gen.pc \in {"scad_base", "scad_text"}
  /\ gen' = [gen EXCEPT !.pc = "raised"]
  /\ batch' = [batch EXCEPT !.status = "raised"]
  /\ UNCHANGED << script, stl, runs, pc, name, meshes, result, failedAt, phases,
                  destTouched, staging, output, previous, other,
                  tempFiles, fields, today >>

\* a variant that renders a description again when the renderer failed
AfterRenderRetry(s, p, ok, base_ok) ==
  CASE s = "band" -> IF ok THEN "returned" ELSE p
    [] s = "bambu" -> IF ~ok THEN p
                      ELSE IF p = "render_base" THEN "render_text" ELSE "package"
    [] s = "separate" -> IF ~ok THEN p
                         ELSE IF p = "render_base" THEN "render_text"
                         ELSE IF base_ok THEN "package" ELSE "returned"

\* where generate_nameplate goes after a render_stl call
AfterRender(s, p, ok, base_ok) ==
  CASE s = "band" -> "returned"
    [] s = "bambu" -> IF ~ok THEN "returned"
                      ELSE IF p = "render_base" THEN "render_text" ELSE "package"
    [] s = "separate" -> IF p = "render_base" THEN "render_text"
                         ELSE IF base_ok /\ ok THEN "package" ELSE "returned"

\* render_stl: True iff the renderer exits 0; timeout, launch error and
\* nonzero exit all give False
Render(ok) ==
  /\ gen.pc \in {"render_base", "render_text"}
  /\ LET part == IF gen.pc = "render_base" THEN PartsOf(script)[1]
                 ELSE PartsOf(script)[2]
     IN tempFiles' = IF ok THEN tempFiles \cup { StlFile(gen.name, part) }
                     ELSE tempFiles
  /\ gen' = [gen EXCEPT
       !.pc = AfterRender(script, gen.pc, ok, gen.base_ok),
       !.base_ok = IF gen.pc = "render_base" THEN ok ELSE @,
       !.text_ok = IF gen.pc = "render_text" THEN ok ELSE @,
       !.render_failed = @ \/ ~ok,
       !.success = (script = "band" /\ ok),
       !.attempts = Append(@, gen.pc)]
  /\ UNCHANGED << script, stl, runs, pc, name, meshes, result, failedAt, phases,
                  destTouched, staging, output, previous, other, batch,
                  fields, today >>

RenderAny == \E ok \in BOOLEAN : Render(ok)

\* generate_nameplate calls create_bambu_3mf / create_3mf_with_separate_objects
GenPackage ==
  /\ gen.pc = "package"
  /\ CallBody(gen.name, runs + 1)
  /\ gen' = [gen EXCEPT !.pc = "packaging", !.called = TRUE,
                         !.attempts = Append(@, "package")]
  /\ UNCHANGED << other, batch, tempFiles, fields, today >>

\* the packaging call returned: generate_nameplate reports its result
GenFinish ==
  /\ gen.pc = "packaging"
  /\ pc = "returned"
  /\ gen' = [gen EXCEPT
       !.pc = "returned",
       !.success = result[1],
       !.threemf = IF script = "separate" /\ result[1] THEN <<gen.name>> ELSE <<>>]
  /\ UNCHANGED << script, stl, runs, pc, name, meshes, result, failedAt, phases,
                  destTouched, staging, output, previous, other, batch,
                  tempFiles, fields, today >>

\* results.append(...)
BatchAppend ==
  /\ gen.pc = "returned"
  /\ batch' = [batch EXCEPT
       !.results = Append(@, [name |-> gen.name, success |-> gen.success,
                              threemf |-> gen.threemf]),
       !.i = @ + 1]
  /\ gen' = NoGen
  /\ UNCHANGED << script, stl, runs, pc, name, meshes, result, failedAt, phases,
                  destTouched, staging, output, previous, other,
                  tempFiles, fields, today >>

\* return results
BatchReturn ==
  /\ batch.status = "running"
  /\ gen.pc = "idle"
  /\ batch.i > Len(batch.names)
  /\ batch' = [batch EXCEPT !.status = "returned"]
  /\ UNCHANGED << script, stl, runs, pc, name, meshes, result, failedAt, phases,
                  destTouched, staging, output, previous, other, gen,
                  tempFiles, fields, today >>

NextBatch ==
  \/ BatchStartAny
  \/ GenCall
  \/ WriteScad
  \/ ScadRaise
  \/ RenderAny
  \/ GenPackage
  \/ Steps
  \/ Raise
  \/ GenFinish
  \/ BatchAppend
  \/ BatchReturn

SpecBatch == Init /\ [][NextBatch]_vars

\* ---- C11 -------------------------------------------------------------------
\* C11: when generate_nameplate returns after a renderer failure for one of
\* the nameplate's meshes, it never called the packaging operation (so no mesh
\* was loaded and no archive or staging directory was made by it), and no
\* geometry-description file or rendered mesh of that nameplate is on disk.
C11_RenderFailureLeavesNothing ==
  (gen.pc = "returned" /\ gen.render_failed)
  => /\ ~gen.called
     /\ \A f \in tempFiles : f[1] # SafeName(gen.name)

\* ---- C12 -------------------------------------------------------------------
\* C12: whatever fails for whichever name, generate_batch ends by returning
\* exactly one result per name, in input order, each marked success or
\* failure.
C12_OneResultPerName ==
  batch.status \in {"returned", "raised"}
  => /\ batch.status = "returned"
     /\ Len(batch.results) = Len(batch.names)
     /\ \A i \in DOMAIN batch.names :
          /\ batch.results[i].name = batch.names[i]
          /\ batch.results[i].success \in BOOLEAN

\* ---- C20 -------------------------------------------------------------------
\* C20: in each script, generate_nameplate reports success for a name only if
\* during that call the packaging operation ran to completion and a complete
\* 3MF archive for that name is in the output directory; when it reports
\* failure it reports no archive path.
C20_SuccessMeansArchive ==
  gen.pc = "returned"
  => /\ gen.success
          => /\ gen.called
             /\ result = <<TRUE>>
             /\ name = gen.name
             /\ output[gen.name].complete
     /\ ~gen.success => gen.threemf = <<>>

\* ---- two packaging calls running at the same time ---------------------------
\* The locals of the call that is not executing are kept in other; the
\* directory temp_dir and the files in output_dir are shared by both calls.
Locals ==
  [pc |-> pc, name |-> name, runs |-> runs, meshes |-> meshes,
   result |-> result, failedAt |-> failedAt, phases |-> phases,
   destTouched |-> destTouched]

IdleLocals(n, r) ==
  [pc |-> "idle", name |-> n, runs |-> r, meshes |-> <<>>, result |-> <<>>,
   failedAt |-> "", phases |-> <<>>, destTouched |-> FALSE]

\* the two calls are for different nameplates; their run tags never meet
InitConc ==
  /\ InitRun
  /\ stl = FixedStl(script)

StartConc ==
  /\ other = <<>>
  /\ pc = "idle"
  /\ \E n \in Names \ {name} : other' = << IdleLocals(n, MaxRuns + 1) >>
  /\ UNCHANGED << script, stl, runs, pc, name, meshes, result, failedAt,
                  phases, destTouched, staging, output, previous, gen, batch,
                  tempFiles, fields, today >>

\* the scheduler lets the other call execute
Switch ==
  /\ other # <<>>
  /\ other' = << Locals >>
  /\ pc' = other[1].pc
  /\ name' = other[1].name
  /\ runs' = other[1].runs
  /\ meshes' = other[1].meshes
  /\ result' = other[1].result
  /\ failedAt' = other[1].failedAt
  /\ phases' = other[1].phases
  /\ destTouched' = other[1].destTouched
  /\ UNCHANGED << script, stl, staging, output, previous, gen, batch,
                  tempFiles, fields, today >>

CallConc ==
  /\ other # <<>>
  /\ pc = "idle"
  /\ Call(name, runs + 1)

NextConc == StartConc \/ CallConc \/ Switch \/ Steps \/ Raise

SpecConc == InitConc /\ [][NextConc]_vars

\* the run tag of the call that packages nameplate n
RunOfName(n) ==
  IF n = name THEN runs
  ELSE IF other # <<>> /\ other[1].name = n THEN other[1].runs ELSE 0

OtherInFlight ==
  /\ other # <<>>
  /\ other[1].pc \notin {"idle", "load", "mkdirs", "returned"}

ArchivesHoldOwnDocuments ==
  \A n \in Names : \A slot \in Slots :
    output[n].entries[slot] # <<>>
    => output[n].entries[slot][1].run = RunOfName(n)

\* a step of the executing call leaves the files staged by the other call alone
OthersStagedFilesKept ==
  (OtherInFlight /\ runs' = runs)
  => \A slot \in Slots :
       (staging.files[slot] # <<>> /\ staging.files[slot][1].run = other[1].runs)
       => staging'.files[slot] = staging.files[slot]

\* ---- C13 -------------------------------------------------------------------
\* C13: when two packaging calls for different nameplates run interleaved,
\* every archive holds only documents written by the call that produced it,
\* and no step of one call deletes or overwrites a file the other call, still
\* in flight, has staged.
C13_ConcurrentRunsIsolated ==
  [](ArchivesHoldOwnDocuments) /\ [][OthersStagedFilesKept]_vars

\* ---- repeated packaging on one generator object -----------------------------
\* datetime.now() moves on to the next day; a call reads it once, so the
\* change is taken between two calls
DayPasses ==
  /\ pc = "returned"
  /\ today = Day1
  /\ today' = Day2
  /\ UNCHANGED << script, stl, runs, pc, name, meshes, result, failedAt,
                  phases, destTouched, staging, output, previous, other, gen,
                  batch, tempFiles, fields >>

\* one call more than MaxRuns, so that a call can lie between two others
CallAgain == \E n \in Names : Call(n, MaxRuns + 1)

NextRepeat == CallAgain \/ Steps \/ Raise \/ DayPasses

SpecRepeat == Init /\ [][NextRepeat]_vars

\* what an archive says apart from its date and title metadata
ArchiveContent(entries) ==
  [model |-> IF entries.model = <<>> THEN <<>>
             ELSE << [objects |-> ModelOf(entries.model).objects,
                      build |-> ModelOf(entries.model).build] >>,
   settings |-> IF entries.settings = <<>> THEN <<>>
                ELSE << SettingsOf(entries.settings) >>]

\* ---- C14 -------------------------------------------------------------------
\* C14: when a packaging call succeeds for a name whose earlier complete
\* archive it replaced (same meshes, name and parameters, whatever calls for
\* other names or aborted calls came in between), the new archive has the
\* same objects with the same ids, vertices and triangles, the same build
\* items and the same part, extruder and band assignments as the earlier one.
C14_Idempotent ==
  (ArchiveDone /\ previous[name] # <<>>)
  => ArchiveContent(output[name].entries) = ArchiveContent(previous[name][1])

\* a third call repeats the first on a later day, another call in between
C14_Witness ==
  /\ ArchiveDone
  /\ script = "bambu"
  /\ previous[name] # <<>>
  /\ previous[name][1].model[1].run + 1 < runs
  /\ ModelOf(previous[name][1].model).date # ModelOf(output[name].entries.model).date
  /\ ModelOf(output[name].entries.model).objects[2].mesh[1].triangles # <<>>

\* ---- packaging with other dimensions ---------------------------------------
\* generator.base_thickness = ..., generator.text_height = ... before any call
SetFields ==
  /\ pc = "idle"
  /\ runs = 0
  /\ fields = DefaultFields(script)
  /\ fields' \in FieldChoices \ {fields}
  /\ UNCHANGED << script, stl, runs, pc, name, meshes, result, failedAt,
                  phases, destTouched, staging, output, previous, other, gen,
                  batch, tempFiles, today >>

NextFields == SetFields \/ CallAny \/ Steps

SpecFields == Init /\ [][NextFields]_vars

\* the paint bands a settings document declares, in document order
BandsOf(st) ==
  IF Len(st.object.part) = 1 THEN st.object.part[1].paint ELSE <<>>

Low(p) == ParseFloat(p.height_range_low)
High(p) == ParseFloat(p.height_range_high)

\* half-open membership: low <= z < high
InBand(z, p) == Low(p) <= z /\ z < High(p)

\* the heights up to one millimetre above the declared top of the plate
Heights == 0 .. (base_thickness + text_height + Scale)

BandedSettings ==
  { SettingsOf(f) : f \in { g \in WrittenFiles("settings") :
                              BandsOf(SettingsOf(g)) # <<>> } }

InputVertexRange(doc, i) ==
  UNION { { ObjectOfInput(doc, i).triangles[k].v1,
            ObjectOfInput(doc, i).triangles[k].v2,
            ObjectOfInput(doc, i).triangles[k].v3 } :
          k \in DOMAIN ObjectOfInput(doc, i).triangles }

\* the positions, from 0, that the triangles of the i-th input take in the
\* buffer that holds them
InputTriangleRange(doc, i) ==
  { k - 1 : k \in DOMAIN ObjectOfInput(doc, i).triangles }

\* vertices and triangles of the inputs that come before the i-th
RECURSIVE VerticesBefore(_, _)
VerticesBefore(doc, i) ==
  IF i = 1 THEN 0
  ELSE VerticesBefore(doc, i - 1) + Len(ObjectOfInput(doc, i - 1).vertices)

RECURSIVE TrianglesBefore(_, _)
TrianglesBefore(doc, i) ==
  IF i = 1 THEN 0
  ELSE TrianglesBefore(doc, i - 1) + Len(ObjectOfInput(doc, i - 1).triangles)

\* C18 as stated: the inputs' vertex and triangle index ranges are
\* contiguous, follow each other in input order, are pairwise disjoint and
\* together are exactly [0, totalVertices) and [0, totalTriangles): the range
\* of each input starts where the ranges of the inputs before it end.
C18_RangesPartitionMergedBuffer ==
  \A f \in OwnFiles("model") :
    \A i \in DOMAIN meshes :
      /\ InputVertexRange(ModelOf(f), i)
           = VerticesBefore(ModelOf(f), i) .. (VerticesBefore(ModelOf(f), i + 1) - 1)
      /\ InputTriangleRange(ModelOf(f), i)
           = TrianglesBefore(ModelOf(f), i) .. (TrianglesBefore(ModelOf(f), i + 1) - 1)

\* C18 amended: nothing is merged; every input of n triangles gets a buffer
\* of its own, the mesh of its own object, and occupies it exactly: its vertex
\* range is [0, 3n) and its triangle range [0, n), the k-th triangle naming
\* the vertices 3(k-1), 3(k-1)+1, 3(k-1)+2, whatever the other inputs hold.
C18_RangesSpanOwnBuffer ==
  \A f \in OwnFiles("model") :
    /\ Cardinality(MeshObjects(ModelOf(f))) = Len(meshes)
    /\ \A i \in DOMAIN meshes :
         LET m == ObjectOfInput(ModelOf(f), i)
             n == Len(meshes[i])
         IN /\ Len(m.vertices) = 3 * n
            /\ Len(m.triangles) = n
            /\ InputVertexRange(ModelOf(f), i) = 0 .. (3 * n - 1)
            /\ InputTriangleRange(ModelOf(f), i) = 0 .. (n - 1)
            /\ \A k \in DOMAIN m.triangles :
                 /\ m.triangles[k].v1 = 3 * (k - 1)
                 /\ m.triangles[k].v2 = 3 * (k - 1) + 1
                 /\ m.triangles[k].v3 = 3 * (k - 1) + 2

\* two non-empty inputs of different sizes, each in its own object
C18_Witness ==
  /\ ArchiveDone
  /\ script = "separate"
  /\ Len(meshes[1]) = 1
  /\ Len(meshes[2]) = 2
  /\ output[name].entries.model # <<>>
  /\ InputVertexRange(ModelOf(output[name].entries.model), 1) = 0 .. 2
  /\ InputVertexRange(ModelOf(output[name].entries.model), 2) = 0 .. 5

\* ---- C19 -------------------------------------------------------------------
TypesListed(types) ==
  /\ \E k \in DOMAIN types : types[k].Extension = "rels"
  /\ \E k \in DOMAIN types : types[k].Extension = "model"

\* the four documents of an archive, each under its fixed path
HasAllDocuments(entries) ==
  /\ ArcName("ctypes") = <<"[Content_Types].xml">>
  /\ entries.ctypes # <<>>
  /\ entries.ctypes[1].complete
  /\ TypesListed(entries.ctypes[1].doc.types)
  /\ ArcName("rels") = <<"_rels", ".rels">>
  /\ entries.rels # <<>>
  /\ entries.rels[1].complete
  /\ \E k \in DOMAIN entries.rels[1].doc.rels :
       ResolveTarget(entries.rels[1].doc.rels[k].Target) = ArcName("model")
  /\ ArcName("model") = <<"3D", "3dmodel.model">>
  /\ entries.model # <<>>
  /\ entries.model[1].complete
  /\ ModelOf(entries.model).build # <<>>
  /\ \A k \in DOMAIN ModelOf(entries.model).build :
       ModelOf(entries.model).build[k].objectid \in ObjectIds(ModelOf(entries.model))
  /\ ArcName("settings") = <<"Metadata", "model_settings.config">>
  /\ entries.settings # <<>>
  /\ entries.settings[1].complete

\* C19: once a packaging call has returned, every archive file it or an
\* earlier call wrote holds, at their fixed paths, the content-type table
\* listing the relationships and the model types, the relationships document
\* pointing at the model document, the model document with a build entry that
\* resolves to a declared object, and the settings document.
C19_ArchiveHasAllDocuments ==
  pc = "returned"
  => \A n \in Names : output[n].exists => HasAllDocuments(output[n].entries)

\* ---- rendered geometry: what OpenSCAD makes of the geometry descriptions ----
\* linear_extrude(height = h) of a 2D outline: a solid between z = 0 and z = h,
\* given by a bottom facet, a side facet and a top facet
BottomFacet == << <<0, 0, 0>>, <<-150, 0, 0>>, <<0, 275, 0>> >>

SideFacet(h) == << <<0, 0, 0>>, <<-150, 0, 0>>, <<0, 0, h>> >>

TopFacet(h) == << <<0, 0, h>>, <<-150, 0, h>>, <<0, 275, h>> >>

\* the facet lists of up to MaxTris facets that include the bottom of the solid
Extrusions(h) ==
  { s \in SeqsUpTo({BottomFacet, SideFacet(h), TopFacet(h)}, MaxTris) :
      \E k \in DOMAIN s : s[k] = BottomFacet }

\* translate([0, 0, dz])
Translate(mesh, dz) ==
  [k \in DOMAIN mesh |->
     [c \in 1..3 |-> << mesh[k][c][1], mesh[k][c][2], mesh[k][c][3] + dz >>]]

\* generate_scad_base / generate_scad_base_only: the plate, from z = 0
RenderedBases == Extrusions(base_thickness)

\* generate_scad_text / generate_scad_text_only:
\* translate([0, 0, plate_thickness]) linear_extrude(height = text_height)
RenderedTexts ==
  { Translate(s, base_thickness) : s \in Extrusions(text_height) }

\* the mesh arguments a script passes on after rendering its descriptions
RenderedArgs(s) ==
  IF s = "band"
  THEN { << b \o t >> : b \in RenderedBases, t \in RenderedTexts }
  ELSE { << b, t >> : b \in RenderedBases, t \in RenderedTexts }

InitRendered ==
  /\ InitRun
  /\ stl \in { [n \in Names |-> a] : a \in RenderedArgs(script) }

SpecRendered == InitRendered /\ [][NextDoc]_vars

\* ---- C21 -------------------------------------------------------------------
EmittedZs(m) == { ParseFloat(m.vertices[k].z) : k \in DOMAIN m.vertices }

Lowest(zs) == CHOOSE z \in zs : \A y \in zs : z <= y

KeepsXY(m, mesh) ==
  /\ Len(m.vertices) = 3 * Len(mesh)
  /\ \A k \in DOMAIN mesh : \A c \in 1..3 :
       /\ ParseFloat(m.vertices[3 * (k - 1) + c].x) = mesh[k][c][1]
       /\ ParseFloat(m.vertices[3 * (k - 1) + c].y) = mesh[k][c][2]

\* C21: in the model document of generate_all_nameplates.py, every text vertex
\* has the x and y of the rendered text mesh, the lowest text z is
\* base_thickness (the text offset is applied once), and the base vertices are
\* those of the rendered base mesh.
C21_TextOffsetAppliedOnce ==
  script = "separate"
  => \A f \in OwnFiles("model") :
       /\ KeepsXY(ObjectOfInput(ModelOf(f), 2), meshes[2])
       /\ Lowest(EmittedZs(ObjectOfInput(ModelOf(f), 2))) = base_thickness
       /\ RoundTrip(ObjectOfInput(ModelOf(f), 1), meshes[1])

\* ---- C22 -------------------------------------------------------------------
\* a 12-parameter transform m00 m01 m02 m10 m11 m12 m20 m21 m22 tx ty tz
\* applied to a point: the 3x3 matrix row by row, then the translation
ApplyAffine(t, p) ==
  << p[1] * t[1] + p[2] * t[4] + p[3] * t[7] + t[10],
     p[1] * t[2] + p[2] * t[5] + p[3] * t[8] + t[11],
     p[1] * t[3] + p[2] * t[6] + p[3] * t[9] + t[12] >>

SamplePoints == { P0, P1, P2, P3, <<Scale, 0, 0>>, <<0, Scale, 0>>, <<0, 0, Scale>> }

IsIdentityAffine(t) ==
  /\ Len(t) = 12
  /\ \A r \in 1..3, c \in 1..3 : t[3 * (r - 1) + c] = (IF r = c THEN 1 ELSE 0)
  /\ \A c \in 10..12 : t[c] = 0
  /\ \A p \in SamplePoints : ApplyAffine(t, p) = p

\* C22: in every model document with a composite object, the composite has
\* exactly one component per mesh object of the document (each mesh object id
\* named once, no other id), and every component carries a 12-parameter
\* transform that is the identity: the 3x3 identity, then a zero translation.
C22_OneIdentityComponentPerMeshObject ==
  \A f \in WrittenFiles("model") :
    \A i \in CompositeObjects(ModelOf(f)) :
      LET comps == ModelOf(f).objects[i].components
          meshIds == { ModelOf(f).objects[j].id : j \in MeshObjects(ModelOf(f)) }
      IN /\ Len(comps) = Cardinality(meshIds)
         /\ { comps[k].objectid : k \in DOMAIN comps } = meshIds
         /\ \A k \in DOMAIN comps : IsIdentityAffine(comps[k].transform)

\* an archive whose composite object joins two non-empty mesh objects
C22_Witness ==
  /\ ArchiveDone
  /\ script = "bambu"
  /\ Len(meshes[1]) >= 1
  /\ Len(meshes[2]) >= 1
  /\ output[name].entries.model # <<>>
  /\ CompositeObjects(ModelOf(output[name].entries.model)) = {3}
  /\ Len(ModelOf(output[name].entries.model).objects[3].components) = 2

\* ---- C23 -------------------------------------------------------------------
\* C23: in every model document whose components carry transforms, the
\* transform of each build item, read in the layout of those component
\* transforms, is the identity: it has twelve values and maps every point to
\* itself.
C23_BuildItemTransformIsIdentity ==
  \A f \in WrittenFiles("model") :
    CompositeObjects(ModelOf(f)) # {}
    => \A k \in DOMAIN ModelOf(f).build :
         /\ ModelOf(f).build[k].transform # <<>>
         /\ Len(ModelOf(f).build[k].transform[1]) = 12
         /\ \A p \in SamplePoints :
              ApplyAffine(ModelOf(f).build[k].transform[1], p) = p

\* ---- C24 -------------------------------------------------------------------
\* the band declared last, the one that reaches highest
Topmost(b) == b[Len(b)]

\* C24: for every settings document with bands and the model document written
\* with it, every height z >= base_thickness, up to and beyond
\* base_thickness + text_height, lies in the topmost band, which has extruder
\* 2, and every z of an emitted vertex lies in some band.
C24_TopmostBandUnbounded ==
  \A s \in OwnFiles("settings") : \A f \in OwnFiles("model") :
    BandsOf(SettingsOf(s)) # <<>>
    => LET b == BandsOf(SettingsOf(s))
       IN /\ Topmost(b).extruder = 2
          /\ \A z \in Heights : z >= base_thickness => InBand(z, Topmost(b))
          /\ \A z \in EmittedZs(ObjectOfInput(ModelOf(f), 1)) :
               \E i \in DOMAIN b : InBand(z, b[i])

\* ---- C25 -------------------------------------------------------------------
NoRepeats(s) == \A i, j \in DOMAIN s : i # j => s[i] # s[j]

\* C25: within one generate_nameplate call each geometry description is
\* rendered at most once and the packaging operation is called at most once;
\* generate_batch starts generate_nameplate once per list position, in order;
\* and a failing render makes the call return, it never raises.
C25_NoRetry ==
  /\ NoRepeats(gen.attempts)
  /\ \A k \in DOMAIN batch.started : batch.started[k] = k
  /\ Len(batch.started) <= Len(batch.names)
  /\ gen.render_failed => gen.pc # "raised"
  /\ batch.status = "raised" => ~gen.render_failed

\* a batch of two: one name failed in the renderer, the other in the one
\* packaging call that was made, and the batch went on to its end
C25_Witness ==
  /\ batch.status = "returned"
  /\ script = "separate"
  /\ Len(batch.results) = 2
  /\ ~batch.results[1].success
  /\ ~batch.results[2].success
  /\ batch.started = <<1, 2>>
  /\ runs = 1
  /\ result = <<FALSE>>

\* ---- C26 -------------------------------------------------------------------
ArchivedFiles(n) ==
  { output[n].entries[slot] : slot \in { s \in Slots : output[n].entries[s] # <<>> } }

\* C26: whatever calls came before, succeeded or aborted at any step, the
\* files of every archive were all staged, completely, by one and the same
\* call, and while a call writes its archive that call is the current one: no
\* file an earlier call left in the staging directory gets into the archive.
C26_ArchiveHoldsOwnRunOnly ==
  /\ \A n \in Names : \A f, g \in ArchivedFiles(n) :
       /\ f[1].complete
       /\ f[1].run = g[1].run
  /\ pc \in {"zipwrite", "cleanup"}
     => \A f \in ArchivedFiles(name) : f[1].run = runs

\* generate_all_nameplates.py: an earlier call aborted while zipping and left
\* its documents in temp_3mf; a later call for another name wrote its archive
C26_Witness ==
  /\ ArchiveDone
  /\ script = "separate"
  /\ runs = MaxRuns
  /\ \E n \in Names \ {name} :
       /\ output[n].exists
       /\ ~output[n].complete
       /\ output[n].entries.model # <<>>
       /\ output[n].entries.model[1].run < runs
  /\ \A slot \in Staged(script) :
       /\ output[name].entries[slot] # <<>>
       /\ output[name].entries[slot][1].run = runs

==============================================================================
